---- MODULE Spec2Model ----
(***************************************************************************)
(* BugRescue (src/bug_rescue.py): the per-artifact run / diagnose / patch  *)
(* / verify loop of main(), the Executor dispatch, the AIProvider.query    *)
(* retry loop and the clean() patch extractor.                             *)
(*                                                                         *)
(* Text is modelled in two ways.  Diagnostics (stdout, stderr, error       *)
(* strings) are TLA+ strings.  Source bodies and raw model output are      *)
(* sequences of characters, one string per character, because the fence    *)
(* character U+0060 cannot be written inside a TLA+ string: it is the      *)
(* character named Tick.                                                   *)
(***************************************************************************)
EXTENDS Integers, Sequences, FiniteSets, TLC

VARIABLES
    root,               \* root_path, the directory args.path names
    files,              \* main: files, the scanned artifacts in os.walk order
    dry_run,            \* args.dry_run
    provider,           \* AIProvider.provider
    key,                \* AIProvider.key is truthy
    installed,          \* the tools shutil.which() finds on PATH
    disk,               \* the file system: path -> content, or NoFile
    pc,                 \* position of main() in its loops
    idx,                \* index in files of the artifact being processed
    i,                  \* attempt index of the retry loop, range(1, 4)
    entry,              \* entry: file, status, error
    fixed,              \* fixed
    current_code_path,  \* current_code_path
    stats,              \* stats: passed, failed, skipped
    logs,               \* logs
    call,               \* the last direct call of AIProvider.query and what it did
    cleaned,            \* the last direct call of clean: its argument and its result
    baks,               \* the artifacts (indexes of files) whose backup copy was made
    obs                 \* observation of the artifact being processed

vars == <<root, files, dry_run, provider, key, installed, disk, pc, idx, i, entry,
          fixed, current_code_path, stats, logs, call, cleaned, baks, obs>>

-----------------------------------------------------------------------------
(* Bounds of the model *)

\* the largest number of artifacts the scan finds
MaxFiles == 1

\* the largest number of artifacts of a scan of several artifacts
MultiFiles == 2

\* the largest length of a raw model output handed to clean on its own
MaxRaw == 7

-----------------------------------------------------------------------------
(* Program constants *)

\* for i in range(1, 4): the last value of the attempt index
MaxAttempts == 3

\* def query(self, prompt, retries=3)
retries == 3

\* if len(fixed_code) > 10
MinLen == 10

BACKUP_DIR == ".bugrescue_backups"
FIXED_DIR == "fixed_code"

Providers == {"ollama", "openai", "anthropic", "gemini"}

\* the executables Executor.run looks up with shutil.which
Tools == {"node", "go", "rustc", "g++"}

-----------------------------------------------------------------------------
(* Text *)

\* the fence character U+0060
Tick == "TICK"

Whitespace == {" ", "\n", "\t", "\r"}

RECURSIVE Chars(_)
\* the characters of a string, in order
Chars(s) == IF s = "" THEN <<>> ELSE <<Head(s)>> \o Chars(Tail(s))

RECURSIVE LStrip(_)
LStrip(s) ==
    IF Len(s) = 0 THEN s
    ELSE IF Head(s) \in Whitespace THEN LStrip(Tail(s)) ELSE s

RECURSIVE RStrip(_)
RStrip(s) ==
    IF Len(s) = 0 THEN s
    ELSE IF s[Len(s)] \in Whitespace THEN RStrip(SubSeq(s, 1, Len(s) - 1)) ELSE s

\* str.strip() of a sequence of characters
Strip(s) == RStrip(LStrip(s))

RECURSIVE StartsWith(_, _)
\* s.startswith(p), for sequences of characters
StartsWith(s, p) ==
    IF Len(p) = 0 THEN TRUE
    ELSE IF Len(s) = 0 THEN FALSE
    ELSE Head(s) = Head(p) /\ StartsWith(Tail(s), Tail(p))

RECURSIVE Contains(_, _)
\* p in s, for sequences of characters
Contains(s, p) ==
    IF StartsWith(s, p) THEN TRUE
    ELSE IF Len(s) = 0 THEN FALSE
    ELSE Contains(Tail(s), p)

\* str.strip() of a diagnostic string
StripStr(s) ==
    LET c == Strip(Chars(s))
        Join[n \in 0..Len(c)] == IF n = 0 THEN "" ELSE Join[n - 1] \o c[n]
    IN Join[Len(c)]

\* p in s, for diagnostic strings
InStr(p, s) == Contains(Chars(s), Chars(p))

-----------------------------------------------------------------------------
(* Paths: <<directory, file name>> *)

NoFile == <<"NOFILE">>

\* the index of the last "." of a file name, 0 when it has none
LastDot(name) ==
    LET c == Chars(name)
        D == {k \in 1..Len(c) : c[k] = "."}
    IN IF D = {} THEN 0 ELSE CHOOSE k \in D : \A j \in D : j <= k

SubStr(name, a, b) ==
    LET c == Chars(name)
        Join[n \in (a - 1)..b] == IF n < a THEN "" ELSE Join[n - 1] \o c[n]
    IN IF b < a THEN "" ELSE Join[b]

\* str.lower(), on ASCII letters
Lower(s) ==
    LET c == Chars(s)
        U == Chars("ABCDEFGHIJKLMNOPQRSTUVWXYZ")
        L == Chars("abcdefghijklmnopqrstuvwxyz")
        Lc(x) == IF \E k \in 1..Len(U) : U[k] = x
                 THEN L[CHOOSE k \in 1..Len(U) : U[k] = x]
                 ELSE x
        Join[n \in 0..Len(c)] == IF n = 0 THEN "" ELSE Join[n - 1] \o Lc(c[n])
    IN Join[Len(c)]

\* f_path.suffix.lower()
Suffix(path) ==
    LET name == path[2]
        k == LastDot(name)
    IN IF k > 1 /\ k < Len(name) THEN Lower(SubStr(name, k, Len(name))) ELSE ""

\* f_path.with_suffix(''), the binary rustc and g++ write (os.name is not 'nt')
WithoutSuffix(path) ==
    LET name == path[2]
        k == LastDot(name)
    IN IF k > 1 /\ k < Len(name) THEN <<path[1], SubStr(name, 1, k - 1)>> ELSE path

\* f.lower().endswith(('.py', '.js', ...)) of the scan
ScanExts == {".py", ".js", ".go", ".rs", ".cpp", ".java", ".yaml", ".dockerfile", ".html"}

Scannable(name) ==
    \E e \in ScanExts :
        LET n == Lower(name)
        IN Len(n) >= Len(e) /\ SubStr(n, Len(n) - Len(e) + 1, Len(n)) = e

ignore_dirs == {BACKUP_DIR, FIXED_DIR, ".git", "__pycache__", "node_modules"}

-----------------------------------------------------------------------------
(* The files the scan may find, in os.walk order.  A directory is named by its   *)
(* path from the working directory, which is also where BACKUP_DIR and FIXED_DIR *)
(* are resolved.                                                                 *)

Tree ==
    << [path |-> <<"a", "app.py">>,    content |-> Chars("raise X")],
       [path |-> <<"a", "main.rs">>,   content |-> Chars("fn main(){}")],
       [path |-> <<"b", "app.py">>,    content |-> Chars("print(y)")],
       [path |-> <<"b", "conf.yaml">>, content |-> Chars("password: Secret")],
       [path |-> <<"b", "Main.java">>, content |-> Chars("class Main{}")],
       [path |-> <<FIXED_DIR, "app.py">>, content |-> Chars("print(z)")] >>

TreePaths == {Tree[k].path : k \in DOMAIN Tree}

FileNames == {p[2] : p \in TreePaths}

\* every path the program can touch
Paths ==
    TreePaths
    \cup {<<FIXED_DIR, n>> : n \in FileNames}
    \cup {<<BACKUP_DIR, n \o ".bak">> : n \in FileNames}
    \cup {WithoutSuffix(p) : p \in TreePaths}
    \cup {WithoutSuffix(<<FIXED_DIR, n>>) : n \in FileNames}

\* a compiled binary
Binary == <<"ELF">>

\* the disk holding exactly the files of Tree whose index is in S
DiskOf(S) ==
    [p \in Paths |->
        IF \E k \in S : Tree[k].path = p
        THEN Tree[CHOOSE k \in S : Tree[k].path = p].content
        ELSE NoFile]

\* the directories args.path may name: the working directory, or the staging
\* directory of an earlier run
Roots == {".", FIXED_DIR}

\* os.walk(root_path) visits the directory of p: the ignored names are pruned from
\* the subdirectories of a visited directory, never from root_path itself
InScan(r, p) == IF r = "." THEN p[1] \notin ignore_dirs ELSE p[1] = r

\* the files of Tree below the directory r
Under(r) == {k \in DOMAIN Tree : InScan(r, Tree[k].path)}

RECURSIVE Walk(_, _, _)
\* main: the os.walk loop collecting the scannable files below r
Walk(r, d, k) ==
    IF k > Len(Tree) THEN <<>>
    ELSE LET p == Tree[k].path
         IN (IF d[p] # NoFile /\ InScan(r, p) /\ Scannable(p[2])
             THEN <<p>> ELSE <<>>) \o Walk(r, d, k + 1)

-----------------------------------------------------------------------------
(* clean: the patch extractor *)

\* \w
WordChars ==
    LET w == Chars("abcdefghijklmnopqrstuvwxyzABCDEFGHIJKLMNOPQRSTUVWXYZ0123456789_")
    IN {w[k] : k \in 1..Len(w)}

\* a fence marker starts at index k of s
FenceAt(s, k) ==
    k >= 1 /\ k + 2 <= Len(s) /\ s[k] = Tick /\ s[k + 1] = Tick /\ s[k + 2] = Tick

RECURSIVE SkipWhile(_, _, _)
\* the first index >= k of s whose character is not in S (Len(s) + 1 if none)
SkipWhile(s, k, S) ==
    IF k <= Len(s) /\ s[k] \in S THEN SkipWhile(s, k + 1, S) ELSE k

\* where group 1 starts for a match starting at p: after (?:\w+)? and \s*, both greedy
GroupStart(s, p) == SkipWhile(s, SkipWhile(s, p + 3, WordChars), Whitespace)

\* the closing fences a match starting at p can end with
Closers(s, p) == {q \in GroupStart(s, p)..Len(s) : FenceAt(s, q)}

\* re.search: the start of the leftmost match, 0 when there is none
SearchStart(s) ==
    LET M == {p \in 1..Len(s) : FenceAt(s, p) /\ Closers(s, p) # {}}
    IN IF M = {} THEN 0 ELSE CHOOSE p \in M : \A r \in M : p <= r

clean(raw) ==
    LET p == SearchStart(raw)
    IN IF p # 0
       THEN LET g == GroupStart(raw, p)
                q == CHOOSE x \in Closers(raw, p) : \A y \in Closers(raw, p) : x <= y
            IN Strip(SubSeq(raw, g, q - 1))
       ELSE Strip(raw)

-----------------------------------------------------------------------------
(* Executor.run *)

CompletedProcess(rc, out, err) == [returncode |-> rc, stdout |-> out, stderr |-> err]

\* what subprocess.run(cmd, capture_output=True, text=True, timeout=15) can do
ProcOutcomes ==
    { [kind |-> "exit", rc |-> 0, out |-> "ok\n", err |-> ""],
      [kind |-> "exit", rc |-> 1, out |-> "", err |-> "Traceback: boom\n"],
      [kind |-> "exit", rc |-> 0, out |-> "", err |-> "1 test SKIPPED\n"],
      [kind |-> "TimeoutExpired", rc |-> 0, out |-> "", err |-> ""] }

ProcOk == [kind |-> "exit", rc |-> 0, out |-> "ok\n", err |-> ""]

\* the environment of one Executor.run call: the compiler's exit, the process run,
\* and whether reading the file raises.  No kind of file meets more than one of a
\* failing compiler, a failing read and a process that is run.
Envs ==
    {[compile |-> "ok", proc |-> p, io |-> "ok"] : p \in ProcOutcomes}
    \cup {[compile |-> "fail", proc |-> ProcOk, io |-> "ok"],
          [compile |-> "ok", proc |-> ProcOk, io |-> "err"]}

\* lines 180-187: run cmd, exceptions turned into results
RunCmd(proc) ==
    CASE proc.kind = "exit" -> CompletedProcess(proc.rc, proc.out, proc.err)
      [] proc.kind = "TimeoutExpired" ->
            CompletedProcess(124, "", "TIMEOUT: Process took too long")
      [] proc.kind = "FileNotFoundError" ->
            CompletedProcess(1, "", "CRITICAL: Compiler executable missing from system")
      [] OTHER -> CompletedProcess(1, "", "SYSTEM ERROR: e")

\* faulty variant: the result does not carry the SKIPPED marker
ToolMissing_NoMarker(tool) ==
    CompletedProcess(1, "", "'" \o tool \o "' not found in PATH")
\* the SKIPPED result of a tool shutil.which does not find
ToolMissing(tool) ==
    CompletedProcess(1, "", "SKIPPED: '" \o tool \o "' not found in PATH")

\* faulty variant: the second token is looked for in lower case
Inspect_LowerSecret(c, env) ==
    IF env.io = "err" \/ c = NoFile
    THEN CompletedProcess(1, "", "Read Error: e")
    ELSE IF Contains(c, Chars("password:")) /\ Contains(c, Chars("secret"))
         THEN CompletedProcess(1, "", "Hardcoded Secret Detected")
         ELSE CompletedProcess(0, "Valid", "")
\* lines 170-176: the static inspection of declarative files
Inspect(c, env) ==
    IF env.io = "err" \/ c = NoFile
    THEN CompletedProcess(1, "", "Read Error: e")
    ELSE IF Contains(c, Chars("password:")) /\ Contains(c, Chars("Secret"))
         THEN CompletedProcess(1, "", "Hardcoded Secret Detected")
         ELSE CompletedProcess(0, "Valid", "")

\* the tool a file extension needs from PATH, "" when it needs none
ToolOf(ext) ==
    CASE ext = ".js" -> "node" [] ext = ".go" -> "go" [] ext = ".rs" -> "rustc"
      [] ext = ".cpp" -> "g++" [] OTHER -> ""

\* ext = f_path.suffix.lower(), for each path of the model
Ext == [p \in Paths |-> Suffix(p)]

\* the compiler is run on f_path and exits 0
Compiles(f_path, inst, env) ==
    /\ Ext[f_path] \in {".rs", ".cpp"}
    /\ ToolOf(Ext[f_path]) \in inst
    /\ env.compile = "ok"

\* Executor.run(f_path): the CompletedProcess it returns
ExecutorRun(f_path, d, inst, env) ==
    LET ext == Ext[f_path]
    IN CASE ext = ".py" -> RunCmd(env.proc)
         [] ext \in {".js", ".go"} ->
               IF ToolOf(ext) \in inst THEN RunCmd(env.proc) ELSE ToolMissing(ToolOf(ext))
         [] ext = ".rs" ->
               IF "rustc" \in inst
               THEN IF env.compile # "ok"
                    THEN CompletedProcess(1, "", "Rust Compile Failed:\nerror\n")
                    ELSE RunCmd(env.proc)
               ELSE ToolMissing("rustc")
         [] ext = ".cpp" ->
               IF "g++" \in inst
               THEN IF env.compile # "ok"
                    THEN CompletedProcess(1, "", "C++ Compile Failed:\nerror\n")
                    ELSE RunCmd(env.proc)
               ELSE ToolMissing("g++")
         [] ext \in {".yaml", ".dockerfile", ".html"} -> Inspect(d[f_path], env)
         [] OTHER -> CompletedProcess(0, "", "SKIPPED: Unsupported File Type")

\* Executor.run(f_path): the disk after it (the compiler writes the binary)
ExecutorDisk(f_path, d, inst, env) ==
    IF Compiles(f_path, inst, env)
    THEN [d EXCEPT ![WithoutSuffix(f_path)] = Binary]
    ELSE d

-----------------------------------------------------------------------------
(* AIProvider.query *)

Fence == <<Tick, Tick, Tick>>

\* raw model outputs a backend may answer with
Responses ==
    { Fence \o Chars("python\nprint('fixed')\n") \o Fence,
      Chars("Sorry.") }

\* a request that raises (transport or parsing exception)
Raise == <<"RAISE">>

BackendOutcomes == {Raise} \cup Responses

\* faulty variant: gemini is sent requests without a credential
NeedsKey_NoGemini(p) == p \in {"openai", "anthropic"}
\* lines 63, 74, 85: the providers that return at once when self.key is falsy
NeedsKey(p) == p \in {"openai", "anthropic", "gemini"}

\* lines 63, 74, 85: the string returned when the credential is missing
MissingKey(p) ==
    CASE p = "openai" -> Chars("ERROR: Missing OpenAI API Key.")
      [] p = "anthropic" -> Chars("ERROR: Missing Anthropic API Key.")
      [] OTHER -> Chars("ERROR: Missing Gemini API Key.")

\* faulty variant: the last failed attempt sleeps and retries too
HasRetry_Always(a) == a < retries
\* line 91: another attempt follows a failed one
HasRetry(a) == a < retries - 1

\* faulty variant: a constant delay
Backoff_Constant(a) == 1
\* line 92: time.sleep(2 ** attempt)
Backoff(a) == 2 ^ a

\* the effects of a query call, in order: requests.post and time.sleep(arg)
Post == [op |-> "post", arg |-> 0]
Sleep(n) == [op |-> "sleep", arg |-> n]

\* what each request of one query call does, were it made: backend[k] for the k-th
Backends == [1..retries -> BackendOutcomes]

\* the backends that raise some number of times and answer the same from then on
SteadyBackends ==
    {b \in Backends : \A k \in 1..(retries - 1) : b[k] # Raise => b[k + 1] = b[k]}

RECURSIVE QueryLoop(_, _, _, _, _)
\* lines 55-95: the loop of query from `attempt` on; trace holds the effects so far
QueryLoop(p, k, backend, a, trace) ==
    IF a >= retries
    THEN [ret |-> Chars("ERROR: Max retries exceeded."), trace |-> trace]
    ELSE IF NeedsKey(p) /\ ~k
    THEN [ret |-> MissingKey(p), trace |-> trace]
    ELSE IF backend[a + 1] # Raise
    THEN [ret |-> backend[a + 1], trace |-> Append(trace, Post)]
    ELSE IF HasRetry(a)
    THEN QueryLoop(p, k, backend, a + 1, trace \o <<Post, Sleep(Backoff(a))>>)
    ELSE [ret |-> Chars("API ERROR: e"), trace |-> Append(trace, Post)]

\* AIProvider.query(prompt): the string returned and the effects, for a backend
query(p, k, backend) == QueryLoop(p, k, backend, 0, <<>>)

-----------------------------------------------------------------------------
(* main *)

\* line 262: "SKIPPED" in res.stderr
IsSkipped(r) == InStr("SKIPPED", r.stderr)

\* the orchestrator's classification of a result, lines 262-277
Classify(r) ==
    IF IsSkipped(r) THEN "skipped"
    ELSE IF r.returncode = 0 THEN "success" ELSE "failure"

\* line 277: res.stderr.strip() or res.stdout.strip()
Diagnostic(r) ==
    IF StripStr(r.stderr) # "" THEN StripStr(r.stderr) ELSE StripStr(r.stdout)

\* BACKUP_DIR / f"{fname}.bak"
BackupPath(f_path) == <<BACKUP_DIR, f_path[2] \o ".bak">>

\* save_path = FIXED_DIR / fname
SavePath(f_path) == <<FIXED_DIR, f_path[2]>>

\* faulty variants: the original is never backed up, or on the second failure
BackupDue_Never(n) == FALSE
BackupDue_Second(n) == n = 2
\* line 282: the backup is made on the first failure only
BackupDue(n) == n = 1

\* faulty variant: a lower length threshold
Accepted_Short(code) == Len(code) > 5
\* line 297: the accept gate
Accepted(code) == Len(code) > MinLen

\* faulty variants: the attempt index is ignored, or compared off by one
SuccessStatus_AlwaysFixed(n) == "FIXED"
SuccessStatus_OffByOne(n) == IF n > 2 THEN "FIXED" ELSE "CLEAN"
\* faulty variant: the two statuses are swapped
SuccessStatus_Swapped(n) == IF n > 1 THEN "CLEAN" ELSE "FIXED"
\* line 271: "FIXED" if i > 1 else "CLEAN"
SuccessStatus(n) == IF n > 1 THEN "FIXED" ELSE "CLEAN"

NewObs(st) ==
    [ runs |-> 0,           \* calls of executor.run for this artifact
      results |-> <<>>,     \* the class of each call's result, in order
      ai_calls |-> 0,       \* calls of ai.query for this artifact
      backups |-> 0,        \* backup copies made for this artifact
      staged |-> 0,         \* candidates written to the staging path
      unverified |-> FALSE, \* a staged candidate has not been run yet
      rejected |-> FALSE,   \* the accept gate rejected a candidate
      cand |-> -1,          \* len(fixed_code) of the last repair, -1 before it
      io_err |-> "",        \* the step of the repair that raised: backup, read, write
      unread |-> FALSE,     \* an inspection of the artifact could not read the file
      orig |-> NoFile,      \* the content of the artifact when it was started
      stats0 |-> st ]       \* stats when the artifact was started

NoCall == [backend |-> <<>>, ret |-> <<>>, trace |-> <<>>]

NoClean == [raw |-> <<"NONE">>, ret |-> <<"NONE">>]

f_path == files[idx]

\* the state main() starts its loop over the files in, lines 201-247, for a scan
\* that finds a number of files in N (main returns at line 233 when it finds none)
\* and a provider in P
Begin(N, P) ==
    /\ root \in Roots
    /\ \E S \in SUBSET Under(root) :
          /\ Cardinality(S) \in N
          /\ disk = DiskOf(S)
          /\ files = Walk(root, DiskOf(S), 1)
    /\ Len(files) >= 1
    /\ dry_run \in BOOLEAN
    /\ provider \in P
    /\ key \in (IF NeedsKey(provider) THEN BOOLEAN ELSE {FALSE})
    /\ installed \in SUBSET ({ToolOf(Suffix(files[k])) : k \in DOMAIN files} \ {""})
    /\ idx = 0
    /\ i = 1
    /\ entry = [file |-> "", status |-> "", error |-> ""]
    /\ fixed = FALSE
    /\ current_code_path = <<"", "">>
    /\ stats = [passed |-> 0, failed |-> 0, skipped |-> 0]
    /\ logs = <<>>
    /\ call = NoCall
    /\ cleaned = NoClean
    /\ baks = {}
    /\ obs = NewObs([passed |-> 0, failed |-> 0, skipped |-> 0])

Start == Begin(1..MaxFiles, Providers)

Init == Start /\ pc = "for_files"

config == <<root, files, dry_run, provider, key, installed>>

\* lines 249-255: the next artifact of the scan
NextFile ==
    /\ pc = "for_files"
    /\ idx < Len(files)
    /\ idx' = idx + 1
    /\ entry' = [file |-> files[idx + 1][2], status |-> "FIXED", error |-> ""]
    /\ fixed' = FALSE
    /\ current_code_path' = files[idx + 1]
    /\ i' = 1
    /\ pc' = "run"
    /\ obs' = [NewObs(stats) EXCEPT !.orig = disk[files[idx + 1]]]
    /\ UNCHANGED <<config, disk, stats, logs, call, cleaned, baks>>

\* faulty variant: one iteration more
LoopNext_OneMore ==
    IF i < MaxAttempts + 1 THEN i' = i + 1 /\ pc' = "run" ELSE i' = i /\ pc' = "end"
\* the retry loop goes to its next iteration, or ends when range(1, 4) is exhausted
LoopNext ==
    IF i < MaxAttempts THEN i' = i + 1 /\ pc' = "run" ELSE i' = i /\ pc' = "end"

\* faulty variant: a dry run repairs too
RepairEnabled_Always(dr) == TRUE
\* line 279: if not args.dry_run
RepairEnabled(dr) == ~dr

\* faulty variant: the retry loop goes on where it should be left
Break_Continue == LoopNext
\* lines 303, 307: break, the retry loop is left
Break == pc' = "end" /\ i' = i

\* lines 259-279: run the active path and classify the result
Run ==
    /\ pc = "run"
    /\ \E env \in Envs :
          LET r == ExecutorRun(current_code_path, disk, installed, env)
          IN /\ disk' = ExecutorDisk(current_code_path, disk, installed, env)
             /\ obs' = [obs EXCEPT !.runs = @ + 1,
                                   !.results = Append(@, Classify(r)),
                                   !.unverified = FALSE,
                                   !.unread = @ \/ r.stderr = "Read Error: e"]
             /\ IF IsSkipped(r)
                THEN /\ entry' = [entry EXCEPT !.status = "SKIPPED", !.error = r.stderr]
                     /\ stats' = [stats EXCEPT !.skipped = @ + 1]
                     /\ fixed' = TRUE
                     /\ pc' = "end"
                     /\ i' = i
                ELSE IF r.returncode = 0
                THEN /\ entry' = [entry EXCEPT !.status = SuccessStatus(i)]
                     /\ stats' = [stats EXCEPT !.passed = @ + 1]
                     /\ fixed' = TRUE
                     /\ pc' = "end"
                     /\ i' = i
                ELSE /\ entry' = [entry EXCEPT !.error = Diagnostic(r)]
                     /\ UNCHANGED <<stats, fixed>>
                     /\ IF RepairEnabled(dry_run) THEN pc' = "repair" /\ i' = i
                                                  ELSE LoopNext
    /\ UNCHANGED <<config, idx, current_code_path, logs, call, cleaned, baks>>

\* lines 280-307: the repair of a failed attempt.  Back up the original on the first
\* failure, read the broken code, ask the AI for a fix, extract the candidate, gate
\* it and write it to the staging path; any exception ends the retry loop.
Repair ==
    /\ pc = "repair"
    /\ \E io \in {"ok", "backup_err", "read_err", "write_err"},
          fix_raw \in {query(provider, key, backend).ret : backend \in SteadyBackends} :
          /\ io = "backup_err" => BackupDue(i)
          /\ LET backed == IF BackupDue(i)
                           THEN [disk EXCEPT ![BackupPath(f_path)] = disk[f_path]]
                           ELSE disk
                 nbak == IF BackupDue(i) THEN obs.backups + 1 ELSE obs.backups
                 nbaks == IF BackupDue(i) THEN baks \cup {idx} ELSE baks
                 fixed_code == clean(fix_raw)
                 save_path == SavePath(f_path)
             IN IF io = "backup_err"
                THEN /\ entry' = [entry EXCEPT !.error = "Repair Failed: e"]
                     /\ Break
                     /\ obs' = [obs EXCEPT !.io_err = "backup"]
                     /\ UNCHANGED <<disk, current_code_path, baks>>
                ELSE IF io = "read_err"
                THEN /\ entry' = [entry EXCEPT !.error = "Repair Failed: e"]
                     /\ Break
                     /\ disk' = backed
                     /\ baks' = nbaks
                     /\ obs' = [obs EXCEPT !.backups = nbak, !.io_err = "read"]
                     /\ UNCHANGED current_code_path
                ELSE IF ~Accepted(fixed_code)
                THEN /\ Break
                     /\ disk' = backed
                     /\ baks' = nbaks
                     /\ obs' = [obs EXCEPT !.backups = nbak, !.ai_calls = @ + 1,
                                           !.cand = Len(fixed_code),
                                           !.rejected = TRUE]
                     /\ UNCHANGED <<entry, current_code_path>>
                ELSE IF io = "write_err"
                THEN /\ entry' = [entry EXCEPT !.error = "Repair Failed: e"]
                     /\ Break
                     /\ disk' = backed
                     /\ baks' = nbaks
                     /\ obs' = [obs EXCEPT !.backups = nbak, !.ai_calls = @ + 1,
                                           !.cand = Len(fixed_code), !.io_err = "write"]
                     /\ UNCHANGED current_code_path
                ELSE /\ disk' = [backed EXCEPT ![save_path] = fixed_code]
                     /\ current_code_path' = save_path
                     /\ baks' = nbaks
                     /\ obs' = [obs EXCEPT !.backups = nbak, !.ai_calls = @ + 1,
                                           !.cand = Len(fixed_code),
                                           !.staged = @ + 1, !.unverified = TRUE]
                     /\ entry' = entry
                     /\ LoopNext
    /\ UNCHANGED <<config, idx, fixed, stats, logs, call, cleaned>>

\* faulty variant: every artifact is marked as failed
Unfixed_Always(f) == TRUE
\* line 309: if not fixed
Unfixed(f) == ~f

\* lines 309-314: the artifact is terminal; back to the head of the loop over the files
EndArtifact ==
    /\ pc = "end"
    /\ IF Unfixed(fixed)
       THEN /\ entry' = [entry EXCEPT !.status = "FAILED"]
            /\ stats' = [stats EXCEPT !.failed = @ + 1]
       ELSE UNCHANGED <<entry, stats>>
    /\ logs' = Append(logs, entry')
    /\ pc' = "for_files"
    /\ UNCHANGED <<config, disk, idx, i, fixed, current_code_path, call, cleaned,
                   baks, obs>>

\* lines 316-319: the loop over the files is over
Report ==
    /\ pc = "for_files"
    /\ idx = Len(files)
    /\ pc' = "done"
    /\ UNCHANGED <<config, disk, idx, i, entry, fixed, current_code_path, stats,
                   logs, call, cleaned, baks, obs>>

Next ==
    \/ NextFile
    \/ Run
    \/ Repair
    \/ EndArtifact
    \/ Report

Spec == Init /\ [][Next]_vars

-----------------------------------------------------------------------------
(* main on a scan that finds several artifacts, with the local provider *)

InitMulti ==
    /\ Begin(2..MultiFiles, {"ollama"})
    /\ pc = "for_files"

SpecMulti == InitMulti /\ [][Next]_vars

-----------------------------------------------------------------------------
(* AIProvider.query on its own: every provider, credential and backend *)

InitQuery ==
    /\ Start
    /\ files = <<Tree[1].path>>
    /\ ~dry_run
    /\ pc = "query"

\* ai.query(prompt) against a backend
QueryCall ==
    /\ pc = "query"
    /\ \E backend \in Backends :
          LET q == query(provider, key, backend)
          IN call' = [backend |-> backend, ret |-> q.ret, trace |-> q.trace]
    /\ UNCHANGED <<config, disk, pc, idx, i, entry, fixed, current_code_path, stats,
                   logs, cleaned, baks, obs>>

NextQuery == QueryCall

SpecQuery == InitQuery /\ [][NextQuery]_vars

-----------------------------------------------------------------------------
(* clean on its own: every raw text over a small alphabet *)

\* the characters of a raw text: the fence character, a word character, white space
RawChars == {Tick, "a", "\n"}

\* the raw model outputs of length at most MaxRaw
RawTexts == UNION {[1..n -> RawChars] : n \in 0..MaxRaw}

InitClean ==
    /\ Begin({1}, {"ollama"})
    /\ files = <<Tree[1].path>>
    /\ ~dry_run
    /\ pc = "clean"

\* clean(raw)
CleanCall ==
    /\ pc = "clean"
    /\ \E raw \in RawTexts : cleaned' = [raw |-> raw, ret |-> clean(raw)]
    /\ pc' = "cleaned"
    /\ UNCHANGED <<config, disk, idx, i, entry, fixed, current_code_path, stats,
                   logs, call, baks, obs>>

NextClean == CleanCall

SpecClean == InitClean /\ [][NextClean]_vars

-----------------------------------------------------------------------------
(* Properties *)

\* the artifact files[idx] has reached Terminal: its entry is in logs
Terminal == pc \in {"for_files", "done"} /\ idx >= 1

\* the retry loop of the artifact is over
LoopOver == pc \in {"end", "for_files", "done"}

Failure3 == <<"failure", "failure", "failure">>

\* C1: Executor.run is invoked at most 3 times for an artifact, whatever the
\* execution results, the AI responses and the I/O errors, dry-run or not.
C1_AtMostThreeRuns == obs.runs <= 3

C1_Witness == Terminal /\ obs.runs = 3 /\ logs[idx].status = "FAILED"

\* C2: an artifact whose first execution succeeds ends CLEAN after exactly one
\* execution, with no backup, no AI request, and passed increased by exactly 1.
C2_CleanOnFirstSuccess ==
    (obs.runs >= 1 /\ obs.results[1] = "success") =>
        /\ obs.runs = 1
        /\ obs.backups = 0
        /\ obs.ai_calls = 0
        /\ LoopOver
        /\ entry.status = "CLEAN"
        /\ stats = [obs.stats0 EXCEPT !.passed = @ + 1]
        /\ Terminal => logs[idx].status = "CLEAN"

C2_Witness == Terminal /\ obs.results = <<"success">> /\ logs[idx].status = "CLEAN"

\* C3: an artifact whose first execution fails and whose second execution, of the
\* staged candidate, succeeds ends FIXED after exactly 2 executions, with exactly
\* one backup, a copy of the artifact, and passed increased by exactly 1.
C3_FixedOnSecondRun ==
    (/\ Len(obs.results) >= 2
     /\ obs.results[1] = "failure"
     /\ obs.results[2] = "success"
     /\ obs.staged >= 1) =>
        /\ obs.runs = 2
        /\ obs.backups = 1
        /\ disk[BackupPath(f_path)] = obs.orig
        /\ LoopOver
        /\ entry.status = "FIXED"
        /\ stats = [obs.stats0 EXCEPT !.passed = @ + 1]
        /\ Terminal => logs[idx].status = "FIXED"

C3_Witness ==
    /\ Terminal
    /\ obs.results = <<"failure", "success">>
    /\ obs.staged = 1
    /\ current_code_path = SavePath(f_path)
    /\ logs[idx].status = "FIXED"

\* C4 as claimed: an artifact that fails on all 3 execution attempts ends FAILED with
\* 3 attempts, failed increased by exactly 1, and a backup of the artifact exists.
C4_FailedWithBackup ==
    (Terminal /\ obs.results = Failure3) =>
        /\ logs[idx].status = "FAILED"
        /\ obs.runs = 3
        /\ stats = [obs.stats0 EXCEPT !.failed = @ + 1]
        /\ disk[BackupPath(f_path)] # NoFile

\* C4 as amended: an artifact that fails on all 3 execution attempts ends FAILED with
\* 3 attempts and failed increased by exactly 1; unless the run is a dry run, a
\* backup of the artifact exists when it reaches Terminal.
C4_FailedBackupUnlessDryRun ==
    (Terminal /\ obs.results = Failure3) =>
        /\ logs[idx].status = "FAILED"
        /\ obs.runs = 3
        /\ stats = [obs.stats0 EXCEPT !.failed = @ + 1]
        /\ ~dry_run => disk[BackupPath(f_path)] = obs.orig

C4_Witness ==
    /\ Terminal
    /\ obs.results = Failure3
    /\ ~dry_run
    /\ logs[idx].status = "FAILED"
    /\ disk[BackupPath(f_path)] = obs.orig

\* the kinds Executor.run has a branch for
HandledExts == {".py", ".js", ".go", ".rs", ".cpp", ".yaml", ".dockerfile", ".html"}

\* the interpreter or compiler of the artifact is not on PATH, or its kind is unsupported
ToolAbsent(p) ==
    \/ Ext[p] \in {".js", ".go", ".rs", ".cpp"} /\ ToolOf(Ext[p]) \notin installed
    \/ Ext[p] \notin HandledExts

\* C5: an artifact whose interpreter or compiler is absent, or whose kind is
\* unsupported, gets a skipped result on the first attempt and ends SKIPPED after
\* exactly 1 attempt, with no AI request, no backup, and only skipped increased.
C5_SkippedWithoutTool ==
    (idx >= 1 /\ obs.runs >= 1 /\ ToolAbsent(f_path)) =>
        /\ obs.results = <<"skipped">>
        /\ obs.runs = 1
        /\ obs.ai_calls = 0
        /\ obs.backups = 0
        /\ LoopOver
        /\ entry.status = "SKIPPED"
        /\ stats = [obs.stats0 EXCEPT !.skipped = @ + 1]
        /\ Terminal => logs[idx].status = "SKIPPED"

C5_Witness ==
    /\ Terminal
    /\ Ext[f_path] = ".rs"
    /\ "rustc" \notin installed
    /\ obs.results = <<"skipped">>
    /\ logs[idx].status = "SKIPPED"

\* C6 as claimed: a patch is requested only when an execution attempt remains, so at
\* most 2 AI requests are made per artifact and every staged candidate has been
\* executed by the time the artifact reaches Terminal.
C6_PatchOnlyWhenAttemptRemains ==
    /\ obs.ai_calls <= 2
    /\ Terminal => ~obs.unverified

\* C7: a candidate of length <= 10 is rejected: nothing is written to the staging
\* path, the active path is unchanged, no further execution attempt or AI request
\* is made for the artifact, and its terminal status is FAILED.
C7_ShortCandidateRejected ==
    /\ [][(obs'.ai_calls = obs.ai_calls + 1 /\ obs'.cand <= 10) =>
            /\ obs'.rejected
            /\ disk'[SavePath(f_path)] = disk[SavePath(f_path)]
            /\ current_code_path' = current_code_path
            /\ pc' = "end"]_vars
    /\ [][(obs.rejected /\ idx' = idx) =>
            /\ obs'.runs = obs.runs
            /\ obs'.ai_calls = obs.ai_calls
            /\ current_code_path' = current_code_path]_vars
    /\ []((obs.rejected /\ Terminal) => logs[idx].status = "FAILED")

C7_Witness ==
    /\ Terminal
    /\ obs.rejected
    /\ obs.cand <= 10
    /\ obs.ai_calls >= 1
    /\ logs[idx].status = "FAILED"

\* the credential the provider needs is there
Reachable == provider \in {"openai", "anthropic", "gemini"} => key

\* the requests.post calls of a trace
Posts(trace) == Cardinality({k \in 1..Len(trace) : trace[k].op = "post"})

\* the time.sleep durations of a trace, in order
Sleeps(trace) == SelectSeq(trace, LAMBDA e : e.op = "sleep")

\* C8: when the first two requests raise and the third succeeds, query returns the
\* third request's response after exactly 3 requests, having slept 1 and then 2
\* time units, 3 in total, each delay double the one before.
C8_ThirdRequestAnswers ==
    (/\ call # NoCall
     /\ Reachable
     /\ call.backend[1] = Raise
     /\ call.backend[2] = Raise
     /\ call.backend[3] # Raise) =>
        /\ call.ret = call.backend[3]
        /\ Posts(call.trace) = 3
        /\ Sleeps(call.trace) = <<Sleep(1), Sleep(2)>>
        /\ call.trace = <<Post, Sleep(1), Post, Sleep(2), Post>>

C8_Witness ==
    /\ call # NoCall
    /\ provider = "anthropic"
    /\ key
    /\ call.backend[1] = Raise
    /\ call.backend[2] = Raise
    /\ call.backend[3] \in Responses
    /\ call.ret = call.backend[3]

\* C9: when every request raises, query makes exactly 3 requests, does not sleep
\* after the last of them, and returns a non-empty error-shaped string.
C9_AllRequestsRaise ==
    (/\ call # NoCall
     /\ Reachable
     /\ \A k \in 1..3 : call.backend[k] = Raise) =>
        /\ Posts(call.trace) = 3
        /\ call.trace[Len(call.trace)] = Post
        /\ Len(call.ret) > 0
        /\ StartsWith(call.ret, Chars("API ERROR: "))

C9_Witness ==
    /\ call # NoCall
    /\ provider = "ollama"
    /\ \A k \in 1..3 : call.backend[k] = Raise
    /\ Posts(call.trace) = 3
    /\ StartsWith(call.ret, Chars("API ERROR: "))

\* C10: for openai, anthropic and gemini without a credential, query returns an
\* error string on its first iteration: no HTTP request is sent, no backoff sleep
\* is made, whatever the backend would do.
C10_MissingKeyNotRetried ==
    (/\ call # NoCall
     /\ provider \in {"openai", "anthropic", "gemini"}
     /\ ~key) =>
        /\ call.trace = <<>>
        /\ StartsWith(call.ret, Chars("ERROR: Missing "))

C10_Witness ==
    /\ call # NoCall
    /\ provider = "gemini"
    /\ ~key
    /\ call.backend[1] = Raise
    /\ call.ret = Chars("ERROR: Missing Gemini API Key.")

DeclarativeExts == {".yaml", ".dockerfile", ".html"}

\* the hardcoded-credential pattern: both tokens occur in the content
HasSecret(c) == c # NoFile /\ Contains(c, Chars("password:")) /\ Contains(c, Chars("Secret"))

\* the artifact being processed is a declarative file with the credential pattern
SecretArtifact == idx >= 1 /\ Ext[f_path] \in DeclarativeExts /\ HasSecret(obs.orig)

HasFence(s) == \E k \in 1..Len(s) : FenceAt(s, k)

\* s holds a complete fenced block: an opening marker and a closing marker after it
CompleteBlock(s) == \E p, q \in 1..Len(s) : FenceAt(s, p) /\ FenceAt(s, q) /\ q >= p + 3

\* C13 as claimed: for every raw model output in which no complete fenced block is
\* found, clean(raw) returns the raw text with any stray fence markers stripped: the
\* result contains no fence marker.
C13_FallbackStripsFences ==
    (cleaned # NoClean /\ ~CompleteBlock(cleaned.raw)) => ~HasFence(cleaned.ret)

\* the status the claim gives to a sequence of execution results
StatusOf(rs) ==
    IF rs[Len(rs)] = "skipped" THEN "SKIPPED"
    ELSE IF rs[Len(rs)] = "success" THEN (IF Len(rs) = 1 THEN "CLEAN" ELSE "FIXED")
    ELSE "FAILED"

\* C14: the terminal status of an artifact is a function of its sequence of execution
\* results alone, whatever the AI responses, the mode and the I/O errors: SKIPPED if
\* the last result is skipped, else CLEAN or FIXED if it is a success (CLEAN when it
\* is the only result), else FAILED.
C14_StatusFromResults ==
    Terminal =>
        /\ obs.results # <<>>
        /\ logs[idx].status = StatusOf(obs.results)

C14_Witness ==
    /\ Terminal
    /\ ~dry_run
    /\ obs.results = <<"failure", "failure", "success">>
    /\ obs.staged = 2
    /\ logs[idx].status = "FIXED"

\* C15: any write of a candidate to the staging path of an artifact is preceded by a
\* successful backup copy of the artifact's pristine original; if the backup copy
\* fails, no AI request is made and nothing is staged for the artifact.
C15_BackupBeforeStaging ==
    /\ [][obs'.backups > obs.backups =>
            /\ obs.staged = 0
            /\ obs.ai_calls = 0
            /\ disk'[BackupPath(f_path)] = obs.orig]_vars
    /\ [][obs'.staged > obs.staged =>
            /\ obs'.backups = 1
            /\ idx \in baks'
            /\ obs'.io_err = ""]_vars
    /\ [](obs.io_err = "backup" =>
            /\ obs.backups = 0
            /\ obs.ai_calls = 0
            /\ obs.staged = 0
            /\ idx >= 1 => current_code_path = f_path)

C15_Witness ==
    /\ Terminal
    /\ obs.staged = 2
    /\ obs.backups = 1
    /\ idx \in baks
    /\ disk[BackupPath(f_path)] = obs.orig
    /\ disk[SavePath(f_path)] # NoFile

\* the content the artifact p has before the run
Pristine(p) == Tree[CHOOSE k \in DOMAIN Tree : Tree[k].path = p].content

\* the first repair of the artifact being processed is over
PastFirstRepair == obs.results # <<>> /\ ~(pc = "repair" /\ i = 1)

\* C16 as claimed: in a run over several artifacts, each artifact whose first
\* execution fails (not dry-run, the copy succeeding) is backed up exactly once, on
\* attempt 1 only, and at the end of the run the backup store holds, for each such
\* artifact, a copy equal to the artifact's pristine content.
C16_OneBackupPerArtifact ==
    /\ obs.backups <= 1
    /\ idx >= 1 => (idx \in baks <=> obs.backups = 1)
    /\ (/\ ~dry_run
        /\ PastFirstRepair
        /\ obs.results[1] = "failure"
        /\ obs.io_err # "backup") => obs.backups = 1
    /\ pc = "done" => \A k \in baks : disk[BackupPath(files[k])] = Pristine(files[k])

\* C17 as claimed: an accepted candidate is written only to a staging path distinct
\* from the artifact's original path, so the content of every original artifact is
\* unchanged in every reachable state; after an accept the active path is the staged
\* copy, which is not the original, and it never reverts to the original.
C17_OriginalNeverOverwritten ==
    /\ \A k \in 1..Len(files) : disk[files[k]] = Pristine(files[k])
    /\ (idx >= 1 /\ obs.staged >= 1) =>
            /\ current_code_path = SavePath(f_path)
            /\ current_code_path # f_path

\* an error string of AIProvider.query
ErrorShaped(c) ==
    /\ c # NoFile
    /\ \/ StartsWith(c, Chars("API ERROR: "))
       \/ StartsWith(c, Chars("ERROR: Missing "))
       \/ StartsWith(c, Chars("ERROR: Max retries"))

\* C18 as claimed: an error-shaped string returned by the AI client is rejected by
\* the extractor and the length gate: it is never written to the staging path and
\* never becomes the active path run on the next attempt.
C18_ErrorStringsRejected ==
    /\ \A p \in Paths : p[1] = FIXED_DIR => ~ErrorShaped(disk[p])
    /\ idx >= 1 => ~ErrorShaped(disk[current_code_path])

\* the counter an entry of the given status is counted in
CounterOf(status) ==
    CASE status \in {"CLEAN", "FIXED"} -> "passed"
      [] status = "FAILED" -> "failed"
      [] status = "SKIPPED" -> "skipped"

\* the entries of logs counted in the counter c
Counted(c) ==
    Cardinality({k \in 1..Len(logs) :
                    logs[k].status \in {"CLEAN", "FIXED", "FAILED", "SKIPPED"}
                    /\ CounterOf(logs[k].status) = c})

StatsSum == stats.passed + stats.failed + stats.skipped

\* C19 as claimed: in every reachable state passed + failed + skipped equals the
\* number of entries in the outcome list.
C19_SumEqualsEntries == StatsSum = Len(logs)

\* C19 as amended: the outcome list is appended to exactly once per artifact, only
\* when the artifact reaches Terminal, in scan order, and exactly one counter is
\* incremented per artifact, the one of the entry's status; passed + failed +
\* skipped equals the number of entries whenever no artifact is in progress, and is
\* at most one more while the artifact in progress is being finished.
C19_OneEntryPerArtifact ==
    /\ [](Len(logs) = IF pc \in {"for_files", "done"} THEN idx ELSE idx - 1)
    /\ [](\A k \in 1..Len(logs) : logs[k].file = files[k][2])
    /\ [][logs' # logs =>
            /\ pc = "end"
            /\ pc' = "for_files"
            /\ logs' = Append(logs, entry')
            /\ entry'.status \in {"CLEAN", "FIXED", "FAILED", "SKIPPED"}
            /\ stats' = [obs.stats0 EXCEPT ![CounterOf(entry'.status)] = @ + 1]]_vars
    /\ [](pc \in {"for_files", "done"} =>
            /\ StatsSum = Len(logs)
            /\ \A c \in {"passed", "failed", "skipped"} : stats[c] = Counted(c))
    /\ [](StatsSum \in {Len(logs), Len(logs) + 1})

C19_Witness ==
    /\ pc = "done"
    /\ Len(files) = 2
    /\ Len(logs) = 2
    /\ logs[1].status = "FAILED"
    /\ logs[2].status = "FIXED"
    /\ stats = [passed |-> 1, failed |-> 1, skipped |-> 0]

\* C20: a read or write error during repair (the backup copy, the read of the
\* current source body, the write of the candidate) aborts the remaining attempts
\* of that artifact only: the artifact ends FAILED with the error as its terminal
\* diagnostic, the failed step leaves the active path unchanged, and the
\* orchestrator goes on with the next artifact.
C20_RepairErrorAborts ==
    /\ [][(obs.io_err = "" /\ obs'.io_err # "") =>
            /\ pc' = "end"
            /\ current_code_path' = current_code_path
            /\ disk'[SavePath(f_path)] = disk[SavePath(f_path)]
            /\ entry'.error = "Repair Failed: e"
            /\ logs' = logs]_vars
    /\ [][(obs.io_err # "" /\ idx' = idx) =>
            /\ obs'.runs = obs.runs
            /\ obs'.ai_calls = obs.ai_calls
            /\ current_code_path' = current_code_path]_vars
    /\ []((obs.io_err # "" /\ Terminal) =>
            /\ logs[idx].status = "FAILED"
            /\ logs[idx].error = "Repair Failed: e"
            /\ stats = [obs.stats0 EXCEPT !.failed = @ + 1])
    /\ [][(pc = "for_files" /\ idx < Len(files)) =>
            /\ idx' = idx + 1
            /\ pc' = "run"
            /\ logs' = logs]_vars

C20_Witness ==
    /\ Terminal
    /\ idx = 2
    /\ logs[1].status = "FAILED"
    /\ logs[1].error = "Repair Failed: e"
    /\ obs.runs >= 1
    /\ logs[2].status = "CLEAN"

====
